---- MODULE Spec2Model ----
(***************************************************************************)
(* A model of the cypher-chain ledger state machine (cypher/blockchain.py, *)
(* cypher/block.py, cypher/transaction.py, cypher/utils.py).               *)
(*                                                                         *)
(* Strings that matter to the code are of three sorts: hex digests made by *)
(* sha256d_hex, other strings (not hexadecimal), and None. A digest is     *)
(* modelled by its preimage (a collision-free hash), so that two digests   *)
(* are equal exactly when their preimages are.                             *)
(***************************************************************************)
EXTENDS Integers, Sequences, FiniteSets, TLC

VARIABLES
  chain,    \* Blockchain.chain: the list of blocks
  utxos,    \* Blockchain.utxos: the dict of unspent outputs, in insertion order
  mempool,  \* Blockchain.mempool: the list of pending transactions
  disk,     \* chain.json, utxos.json and mempool.json as last written
  ret,      \* the last call made on the ledger and what it returned
  scn       \* the client's place in the end-to-end scenario, when one is played

vars == <<chain, utxos, mempool, disk, ret, scn>>

(***************************************************************************)
(* Bounds of the model.                                                    *)
(***************************************************************************)
\* the longest chain explored (genesis included)
MaxChain == 3
\* the longest list of txids given to merkle_root_hex
MaxTxids == 4
\* the largest UTXO map given to build_simple_tx
MaxUtxos == 3
\* the most transactions the mempool is let to hold
MaxMempool == 2

(***************************************************************************)
(* Program constants (cypher/config.py).                                   *)
(***************************************************************************)
BLOCK_REWARD == 3
DIFFICULTY == 1

Addresses == {"A", "B"}
\* the addresses blocks are mined to
Miners == {"A"}
Pubkeys == {"pkA", "pkB", "pkM"}

(***************************************************************************)
(* utils.py                                                                *)
(***************************************************************************)
\* sha256d_hex(data): the hex digest of data
sha256d_hex(data) == [kind |-> "hex", pre |-> data]

\* a string that is not a hexadecimal string
NonHex == [kind |-> "str", pre |-> <<>>]
\* None, where a string is optional
None == [kind |-> "none", pre |-> <<>>]
\* the byte string b""
EmptyBytes == <<>>

\* bytes.fromhex(s) succeeds
IsHex(s) == s.kind = "hex"

\* to_json(obj): the canonical JSON text of obj, one text per value
to_json(obj) == <<"json", obj>>

\* bytes.fromhex(left) + bytes.fromhex(right), of two digests
HexConcat(left, right) == <<"bytes", left, right>>

RECURSIVE MerkleLevel_NoDup(_)
\* a level that carries its odd last element up as it is
MerkleLevel_NoDup(level) ==
  IF Len(level) = 0 THEN <<>>
  ELSE IF Len(level) = 1
       THEN <<level[1]>>
       ELSE <<sha256d_hex(HexConcat(level[1], level[2]))>>
              \o MerkleLevel_NoDup(SubSeq(level, 3, Len(level)))

RECURSIVE MerkleLevel(_)
\* one pass of the while loop's body: the next level
MerkleLevel(level) ==
  IF Len(level) = 0 THEN <<>>
  ELSE IF Len(level) = 1
       THEN <<sha256d_hex(HexConcat(level[1], level[1]))>>
       ELSE <<sha256d_hex(HexConcat(level[1], level[2]))>>
              \o MerkleLevel(SubSeq(level, 3, Len(level)))

RECURSIVE MerkleReduce(_)
MerkleReduce(level) ==
  IF Len(level) > 1 THEN MerkleReduce(MerkleLevel(level)) ELSE level[1]

\* merkle_root_hex raises (bytes.fromhex of a string that is not hex)
MerkleRaises(txids) ==
  Len(txids) > 1 /\ \E i \in 1..Len(txids) : ~IsHex(txids[i])

\* merkle_root_hex(txids), when it does not raise
merkle_root_hex(txids) ==
  IF Len(txids) = 0 THEN sha256d_hex(EmptyBytes) ELSE MerkleReduce(txids)

(***************************************************************************)
(* transaction.py                                                          *)
(***************************************************************************)
pubkey_to_address(pubkey_hex) ==
  CASE pubkey_hex = "pkA" -> "A"
    [] pubkey_hex = "pkB" -> "B"
    [] pubkey_hex = "pkM" -> "M"
    [] OTHER -> "?"

TxOutput(amount, address) == [amount |-> amount, address |-> address]

\* a signature made with the private key of `pubkey` over `preimage`
Signature(pubkey, preimage) == [key |-> pubkey, msg |-> preimage]
NoSignature == [key |-> "", msg |-> <<>>]
NoPubkey == ""

TxInput(txid, vout) ==
  [txid |-> txid, vout |-> vout, signature |-> NoSignature, pubkey |-> NoPubkey]

\* TxInput.to_dict(include_sig=False), as to_json encodes it
InputStripped(tin) == <<tin.txid, tin.vout>>

\* Transaction.to_dict(include_sig=False), as to_json encodes it
TxStripped(tx) ==
  << [i \in 1..Len(tx.inputs) |-> InputStripped(tx.inputs[i])],
     tx.outputs, tx.timestamp, tx.coinbase >>

compute_txid(tx) == sha256d_hex(to_json(TxStripped(tx)))

Transaction(inputs, outputs, timestamp, coinbase) ==
  [inputs |-> inputs, outputs |-> outputs, timestamp |-> timestamp,
   txid |-> None, coinbase |-> coinbase]

RECURSIVE SumAmounts(_)
SumAmounts(outs) ==
  IF Len(outs) = 0 THEN 0 ELSE outs[1].amount + SumAmounts(Tail(outs))

(***************************************************************************)
(* The UTXO map: a Python dict, which keeps insertion order. It is the     *)
(* sequence of its items, keys unique.                                     *)
(***************************************************************************)
UKey(txid, vout) == <<txid, vout>>

Has(d, k) == \E i \in 1..Len(d) : d[i].key = k
Get(d, k) == d[CHOOSE i \in 1..Len(d) : d[i].key = k].out
\* del d[k], k a key of d
Del(d, k) == SelectSeq(d, LAMBDA e : e.key # k)
\* d[k] = v: an existing key keeps its place
Put(d, k, v) ==
  IF Has(d, k)
  THEN [i \in 1..Len(d) |-> IF d[i].key = k THEN [key |-> k, out |-> v] ELSE d[i]]
  ELSE Append(d, [key |-> k, out |-> v])
Keys(d) == {d[i].key : i \in 1..Len(d)}

\* a map that takes the first output only
PutOutputs_First(d, txid, outs, idx) ==
  IF Len(outs) = 0 THEN d ELSE Put(d, UKey(txid, 0), outs[1])

RECURSIVE PutOutputs(_, _, _, _)
\* for idx, o in enumerate(tx.outputs): d[(txid, idx)] = o, from index idx on
PutOutputs(d, txid, outs, idx) ==
  IF idx >= Len(outs) THEN d
  ELSE PutOutputs(Put(d, UKey(txid, idx), outs[idx + 1]), txid, outs, idx + 1)

\* a verify that takes any signature
SignatureValid_Any(tin, preimage) == TRUE

\* vk.verify(signature, preimage) with vk made from pubkey: no exception
SignatureValid(tin, preimage) ==
  /\ tin.pubkey \in Pubkeys
  /\ tin.signature = Signature(tin.pubkey, preimage)

RECURSIVE VerifyInputs(_, _, _, _)
\* the loop over self.inputs of verify: [ok, total_in]
VerifyInputs(tx, utxo_map, n, total_in) ==
  IF n > Len(tx.inputs) THEN [ok |-> TRUE, total_in |-> total_in]
  ELSE LET tin == tx.inputs[n]
           ref == UKey(tin.txid, tin.vout)
       IN IF ~Has(utxo_map, ref) THEN [ok |-> FALSE, total_in |-> total_in]
          ELSE IF tin.signature = NoSignature \/ tin.pubkey = NoPubkey
               THEN [ok |-> FALSE, total_in |-> total_in]
          ELSE IF ~SignatureValid(tin, to_json(TxStripped(tx)))
               THEN [ok |-> FALSE, total_in |-> total_in]
          ELSE IF pubkey_to_address(tin.pubkey) # Get(utxo_map, ref).address
               THEN [ok |-> FALSE, total_in |-> total_in]
          ELSE VerifyInputs(tx, utxo_map, n + 1, total_in + Get(utxo_map, ref).amount)

\* Transaction.to_dict raises AttributeError: an input is not a TxInput but
\* the class object _load puts in its place, which has no to_dict
ToDictRaises(tx) == \E n \in 1..Len(tx.inputs) : "cls" \in DOMAIN tx.inputs[n]

\* Transaction.verify(utxo_map); an exception inside it makes it return False
Verify(tx, utxo_map) ==
  IF tx.coinbase THEN TRUE
  ELSE LET r == VerifyInputs(tx, utxo_map, 1, 0)
       IN /\ ~ToDictRaises(tx)
          /\ r.ok
          /\ ~(SumAmounts(tx.outputs) > r.total_in)
          /\ compute_txid(tx) = tx.txid

\* make_coinbase(to_address, amount); now is the reading of time.time()
make_coinbase(to_address, amount, now) ==
  LET tx == Transaction(<<>>, <<TxOutput(amount, to_address)>>, now, TRUE)
  IN [tx EXCEPT !.txid = compute_txid(tx)]

\* the public key of a private key
PubOfPriv(priv_hex) ==
  CASE priv_hex = "skA" -> "pkA"
    [] priv_hex = "skB" -> "pkB"
    [] priv_hex = "skM" -> "pkM"
    [] OTHER -> "pk?"

\* sign_inputs raises ValueError: an input is not in utxo_map or not the signer's
SignRaises(tx, priv_hex, utxo_map) ==
  /\ ~tx.coinbase
  /\ \E n \in 1..Len(tx.inputs) :
        LET ref == UKey(tx.inputs[n].txid, tx.inputs[n].vout)
        IN \/ ~Has(utxo_map, ref)
           \/ Get(utxo_map, ref).address # pubkey_to_address(PubOfPriv(priv_hex))

\* Transaction.sign_inputs(priv_hex, utxo_map), when it does not raise
sign_inputs(tx, priv_hex, utxo_map) ==
  IF tx.coinbase THEN [tx EXCEPT !.txid = compute_txid(tx)]
  ELSE LET pub_hex == PubOfPriv(priv_hex)
           sig == Signature(pub_hex, to_json(TxStripped(tx)))
           signed == [tx EXCEPT !.inputs =
                        [n \in 1..Len(tx.inputs) |->
                           [tx.inputs[n] EXCEPT !.signature = sig, !.pubkey = pub_hex]]]
       IN [signed EXCEPT !.txid = compute_txid(signed)]

RECURSIVE CollectInputs(_, _, _, _)
\* the selection loop of build_simple_tx over available[n..]: [ins, total]
CollectInputs(available, n, amount, acc) ==
  IF n > Len(available) THEN acc
  ELSE LET e == available[n]
           nxt == [ins |-> Append(acc.ins, TxInput(e.key[1], e.key[2])),
                   total |-> acc.total + e.out.amount]
       IN IF nxt.total >= amount THEN nxt
          ELSE CollectInputs(available, n + 1, amount, nxt)

\* build_simple_tx: [raised, error, tx]; now is the reading of time.time()
build_simple_tx(utxo_map, from_priv_hex, from_pub_hex, to_addr, amount, change_addr, now) ==
  LET owner_addr == pubkey_to_address(from_pub_hex)
      available == SelectSeq(utxo_map, LAMBDA e : e.out.address = owner_addr)
      sel == CollectInputs(available, 1, amount, [ins |-> <<>>, total |-> 0])
      change == sel.total - amount
      outputs == IF change > 0
                 THEN <<TxOutput(amount, to_addr),
                        TxOutput(change, IF change_addr = "" THEN owner_addr ELSE change_addr)>>
                 ELSE <<TxOutput(amount, to_addr)>>
      tx == Transaction(sel.ins, outputs, now, FALSE)
  IN IF sel.total < amount
     THEN [raised |-> TRUE, error |-> "Insufficient funds", tx |-> tx]
     ELSE IF SignRaises(tx, from_priv_hex, utxo_map)
     THEN [raised |-> TRUE, error |-> "sign_inputs", tx |-> tx]
     ELSE [raised |-> FALSE, error |-> "", tx |-> sign_inputs(tx, from_priv_hex, utxo_map)]

(***************************************************************************)
(* block.py                                                                *)
(***************************************************************************)
Block(index, prev_hash, timestamp, txs) ==
  [index |-> index, prev_hash |-> prev_hash, timestamp |-> timestamp, nonce |-> 0,
   txs |-> txs, merkle_root |-> None, hash |-> None]

TxIds(txs) == [i \in 1..Len(txs) |-> txs[i].txid]

compute_merkle_raises(block) == MerkleRaises(TxIds(block.txs))
compute_merkle(block) == merkle_root_hex(TxIds(block.txs))

\* the empty string
EmptyStr == [kind |-> "str", pre |-> <<"">>]

header_preimage(block) ==
  to_json(<< block.index, block.prev_hash, block.timestamp, block.nonce,
             IF block.merkle_root = None THEN EmptyStr ELSE block.merkle_root >>)

compute_hash(block) == sha256d_hex(header_preimage(block))

\* the nonces among which the proof-of-work search finds one
NonceSpace == 2

\* h.startswith("0" * difficulty): the digest of a header is taken to start with
\* zeros for one nonce of every NonceSpace consecutive ones
StartsWithZeros(h, difficulty) ==
  \/ difficulty = 0
  \/ /\ h.kind = "hex"
     /\ Len(h.pre) = 2
     /\ Len(h.pre[2]) = 5
     /\ (h.pre[2][1] + h.pre[2][3] + h.pre[2][4]) % NonceSpace = 0

\* mine_block(block, difficulty): the first nonce from 0 whose hash has the prefix
mine_block(block, difficulty) ==
  LET b0 == [block EXCEPT !.merkle_root = compute_merkle(block), !.nonce = 0]
      good(n) == StartsWithZeros(compute_hash([b0 EXCEPT !.nonce = n]), difficulty)
      nonce == CHOOSE n \in 0..(NonceSpace - 1) : good(n) /\ \A m \in 0..(n - 1) : ~good(m)
      b1 == [b0 EXCEPT !.nonce = nonce]
  IN [b1 EXCEPT !.hash = compute_hash(b1)]

(***************************************************************************)
(* blockchain.py                                                           *)
(***************************************************************************)
\* GENESIS_MESSAGE, the sentinel prev_hash of the genesis block
GENESIS_MESSAGE == [kind |-> "str", pre |-> <<"genesis">>]

\* the three documents _persist writes: chain.json, utxos.json, mempool.json
TxDoc(t) ==
  [inputs |-> t.inputs, outputs |-> t.outputs, timestamp |-> t.timestamp,
   coinbase |-> t.coinbase, txid |-> t.txid]

BlockDoc(b) ==
  [index |-> b.index, prev_hash |-> b.prev_hash, timestamp |-> b.timestamp,
   nonce |-> b.nonce, txs |-> [i \in 1..Len(b.txs) |-> TxDoc(b.txs[i])],
   merkle_root |-> b.merkle_root, hash |-> b.hash]

Persist(c, u, m) ==
  [chain |-> [i \in 1..Len(c) |-> BlockDoc(c[i])],
   utxos |-> [i \in 1..Len(u) |-> [key |-> <<u[i].key[1], ":", u[i].key[2]>>, val |-> u[i].out]],
   mempool |-> [i \in 1..Len(m) |-> TxDoc(m[i])]]

\* type("TxInput", (), i): a class object with the document's entries as its
\* attributes, equal to no TxInput
LoadedInput(i) ==
  [cls |-> "TxInput", txid |-> i.txid, vout |-> i.vout,
   signature |-> i.signature, pubkey |-> i.pubkey]

\* the Transaction _load makes of a transaction document
LoadTx(t) ==
  [inputs |-> [n \in 1..Len(t.inputs) |-> LoadedInput(t.inputs[n])],
   outputs |-> t.outputs, timestamp |-> t.timestamp, txid |-> t.txid,
   coinbase |-> t.coinbase]

\* the Block _load makes of a block document
LoadBlock(b) ==
  [index |-> b.index, prev_hash |-> b.prev_hash, timestamp |-> b.timestamp,
   nonce |-> b.nonce, txs |-> [i \in 1..Len(b.txs) |-> LoadTx(b.txs[i])],
   merkle_root |-> b.merkle_root, hash |-> b.hash]

\* _load: the ledger read from the three documents d
Load(d) ==
  [chain |-> [i \in 1..Len(d.chain) |-> LoadBlock(d.chain[i])],
   utxos |-> [i \in 1..Len(d.utxos) |->
                [key |-> UKey(d.utxos[i].key[1], d.utxos[i].key[3]), out |-> d.utxos[i].val]],
   mempool |-> [i \in 1..Len(d.mempool) |-> LoadTx(d.mempool[i])]]

\* _persist raises AttributeError: t.to_dict of a transaction of the chain or
\* of the mempool does
PersistRaises(c, m) ==
  \/ \E i \in 1..Len(c) : \E k \in 1..Len(c[i].txs) : ToDictRaises(c[i].txs[k])
  \/ \E j \in 1..Len(m) : ToDictRaises(m[j])

\* _init_genesis: the genesis block; now is the reading of time.time()
GenesisBlock(now) ==
  LET t0 == Transaction(<<>>, <<>>, now, TRUE)
      genesis_tx == [t0 EXCEPT !.txid = compute_txid(t0)]
  IN mine_block(Block(0, GENESIS_MESSAGE, now, <<genesis_tx>>), DIFFICULTY)

latest_block(c) == c[Len(c)]

\* a ledger that does not look at the inputs pending transactions spend
SpentInMempool_None(m) == {}

\* spent_in_mempool of add_transaction
SpentInMempool(m) ==
  UNION { {UKey(m[j].inputs[n].txid, m[j].inputs[n].vout) : n \in 1..Len(m[j].inputs)} :
          j \in 1..Len(m) }

\* a ledger that admits transactions without verifying them
AddTransactionAccepts_NoVerify(tx, u, m) ==
  /\ ~tx.coinbase
  /\ ~\E j \in 1..Len(m) : m[j].txid = tx.txid
  /\ ~\E n \in 1..Len(tx.inputs) :
         UKey(tx.inputs[n].txid, tx.inputs[n].vout) \in SpentInMempool(m)

\* add_transaction's return value for tx (txid already assigned if absent)
AddTransactionAccepts(tx, u, m) ==
  /\ ~tx.coinbase
  /\ Verify(tx, u)
  /\ ~\E j \in 1..Len(m) : m[j].txid = tx.txid
  /\ ~\E n \in 1..Len(tx.inputs) :
         UKey(tx.inputs[n].txid, tx.inputs[n].vout) \in SpentInMempool(m)

\* a ledger that leaves spent outputs in the map
DelInputs_Keep(u, ins, n) == [ok |-> TRUE, utxos |-> u]

RECURSIVE DelInputs(_, _, _)
\* the loop over tx.inputs of apply_tx and validate_block, from input n on:
\* [ok, utxos]; it stops at an input whose key is gone
DelInputs(u, ins, n) ==
  IF n > Len(ins) THEN [ok |-> TRUE, utxos |-> u]
  ELSE LET ref == UKey(ins[n].txid, ins[n].vout)
       IN IF ~Has(u, ref) THEN [ok |-> FALSE, utxos |-> u]
          ELSE DelInputs(Del(u, ref), ins, n + 1)

\* apply_tx(tx) on the UTXO map u: [ok, utxos]
apply_tx(u, tx) ==
  IF tx.coinbase THEN [ok |-> TRUE, utxos |-> PutOutputs(u, tx.txid, tx.outputs, 0)]
  ELSE IF ~Verify(tx, u) THEN [ok |-> FALSE, utxos |-> u]
  ELSE LET d == DelInputs(u, tx.inputs, 1)
       IN IF ~d.ok THEN d
          ELSE [ok |-> TRUE, utxos |-> PutOutputs(d.utxos, tx.txid, tx.outputs, 0)]

RECURSIVE ReplayBlock(_, _, _)
\* the loop over block.txs of validate_block, from transaction n on: [ok, copy]
ReplayBlock(txs, copy, n) ==
  IF n > Len(txs) THEN [ok |-> TRUE, copy |-> copy]
  ELSE LET tx == txs[n]
       IN IF ~tx.coinbase /\ ~Verify(tx, copy) THEN [ok |-> FALSE, copy |-> copy]
          ELSE IF tx.coinbase
               THEN ReplayBlock(txs, PutOutputs(copy, tx.txid, tx.outputs, 0), n + 1)
          ELSE LET d == DelInputs(copy, tx.inputs, 1)
               IN IF ~d.ok THEN [ok |-> FALSE, copy |-> d.utxos]
                  ELSE ReplayBlock(txs, PutOutputs(d.utxos, tx.txid, tx.outputs, 0), n + 1)

\* a ledger that does not compare prev_hash with the tip
PrevHashMatches_Any(block, prev) == TRUE

PrevHashMatches(block, prev) == block.prev_hash = prev.hash

HasProofOfWork(block) ==
  block.hash # None /\ block.hash # EmptyStr /\ StartsWithZeros(block.hash, DIFFICULTY)

HashMatches(block) == compute_hash(block) = block.hash

MerkleMatches(block) == compute_merkle(block) = block.merkle_root

FirstIsCoinbase(block) == Len(block.txs) > 0 /\ block.txs[1].coinbase

RewardMatches(block) == SumAmounts(block.txs[1].outputs) = BLOCK_REWARD

\* utxo_copy = self.utxos: the replay works on the live map itself
LiveAfterReplay_Alias(live, copy) == copy

\* utxo_copy = dict(self.utxos): what the replay leaves in the live map
LiveAfterReplay(live, copy) == live

\* validate_block(block, prev) with self.utxos = live:
\* [result, live, copy], result one of "True", "False", "raise"
validate_block(block, prev, live) ==
  LET no == [result |-> "False", live |-> live, copy |-> live]
  IN IF ~PrevHashMatches(block, prev) THEN no
     ELSE IF ~HasProofOfWork(block) THEN no
     ELSE IF ~HashMatches(block) THEN no
     ELSE IF compute_merkle_raises(block) THEN [no EXCEPT !.result = "raise"]
     ELSE IF ~MerkleMatches(block) THEN no
     ELSE IF ~FirstIsCoinbase(block) THEN no
     ELSE IF ~RewardMatches(block) THEN no
     ELSE LET r == ReplayBlock(block.txs, live, 1)
          IN [result |-> IF r.ok THEN "True" ELSE "False",
              live |-> LiveAfterReplay(live, r.copy), copy |-> r.copy]

RECURSIVE SelectTxs(_, _, _, _)
\* the selection loop of mine over the mempool, from transaction n on:
\* [raised, selected, utxo_temp]; del utxo_temp[key] raises KeyError for a key
\* that is gone
SelectTxs(m, n, utxo_temp, selected) ==
  IF n > Len(m) THEN [raised |-> FALSE, selected |-> selected, utxo_temp |-> utxo_temp]
  ELSE LET tx == m[n]
       IN IF ~Verify(tx, utxo_temp) THEN SelectTxs(m, n + 1, utxo_temp, selected)
          ELSE LET d == DelInputs(utxo_temp, tx.inputs, 1)
               IN IF ~d.ok
                  THEN [raised |-> TRUE, selected |-> selected, utxo_temp |-> d.utxos]
                  ELSE SelectTxs(m, n + 1, PutOutputs(d.utxos, tx.txid, tx.outputs, 0),
                                 Append(selected, tx))

\* a commit that applies the first transaction of the block only
CommitTxs_FirstOnly(txs, n, u, m) ==
  IF Len(txs) = 0 THEN [utxos |-> u, mempool |-> m, applied |-> TRUE]
  ELSE [utxos |-> apply_tx(u, txs[1]).utxos,
        mempool |-> SelectSeq(m, LAMBDA t : t.txid # txs[1].txid),
        applied |-> apply_tx(u, txs[1]).ok]

RECURSIVE CommitTxs(_, _, _, _)
\* for tx in txs: self.apply_tx(tx); self.mempool = [t ... if t.txid != tx.txid]
\* from transaction n on: [utxos, mempool, applied]; applied: every apply_tx
\* returned True
CommitTxs(txs, n, u, m) ==
  IF n > Len(txs) THEN [utxos |-> u, mempool |-> m, applied |-> TRUE]
  ELSE LET a == apply_tx(u, txs[n])
           rest == CommitTxs(txs, n + 1, a.utxos,
                             SelectSeq(m, LAMBDA t : t.txid # txs[n].txid))
       IN [rest EXCEPT !.applied = a.ok /\ rest.applied]

\* add_transaction(tx) in the ledger state (c, u, m): the state after and the
\* return value
add_transaction(c, u, m, d, tx0) ==
  LET tx == IF tx0.txid = None THEN [tx0 EXCEPT !.txid = compute_txid(tx0)] ELSE tx0
  IN IF AddTransactionAccepts(tx, u, m)
     THEN [ret |-> "True", chain |-> c, utxos |-> u, mempool |-> Append(m, tx),
           disk |-> Persist(c, u, Append(m, tx))]
     ELSE [ret |-> "False", chain |-> c, utxos |-> u, mempool |-> m, disk |-> d]

\* self.chain[-1] = block
AppendBlock_Overwrite(c, block) == Append(SubSeq(c, 1, Len(c) - 1), block)

\* self.chain.append(block)
AppendBlock(c, block) == Append(c, block)

\* the commit of mine and try_add_block: apply and prune every transaction,
\* append the block, persist
Commit(c, u, m, block, txs, retval) ==
  LET k == CommitTxs(txs, 1, u, m)
  IN [ret |-> retval, chain |-> AppendBlock(c, block), utxos |-> k.utxos,
      mempool |-> k.mempool,
      disk |-> Persist(AppendBlock(c, block), k.utxos, k.mempool)]

\* the candidate block of mine: the coinbase and the selected transactions
MineCandidate(c, selected, now) == Block(Len(c), latest_block(c).hash, now, selected)

\* mine(miner_address); now is the reading of time.time()
mine(c, u, m, d, miner_address, now) ==
  LET coinbase == make_coinbase(miner_address, BLOCK_REWARD, now)
      s == SelectTxs(m, 1, u, <<coinbase>>)
      mined == mine_block(MineCandidate(c, s.selected, now), DIFFICULTY)
      v == validate_block(mined, latest_block(c), u)
  IN IF s.raised THEN [ret |-> "raise", chain |-> c, utxos |-> u, mempool |-> m, disk |-> d]
     ELSE IF v.result = "True" THEN Commit(c, v.live, m, mined, s.selected, "block")
     ELSE [ret |-> IF v.result = "raise" THEN "raise" ELSE "None",
           chain |-> c, utxos |-> v.live, mempool |-> m, disk |-> d]

\* a ledger that takes a block of any index
IndexIsNext_Any(block, c) == TRUE

IndexIsNext(block, c) == block.index = Len(c)

\* try_add_block(block)
try_add_block(c, u, m, d, block) ==
  IF ~IndexIsNext(block, c)
  THEN [ret |-> "False", chain |-> c, utxos |-> u, mempool |-> m, disk |-> d]
  ELSE LET v == validate_block(block, latest_block(c), u)
       IN IF v.result = "True" THEN Commit(c, v.live, m, block, block.txs, "True")
          ELSE [ret |-> v.result, chain |-> c, utxos |-> v.live, mempool |-> m, disk |-> d]

\* balance(address)
balance(u, address) ==
  SumAmounts(SelectSeq([i \in 1..Len(u) |-> u[i].out], LAMBDA o : o.address = address))

(***************************************************************************)
(* The callers: what a client or a peer may hand to the ledger (node.py:   *)
(* /tx/new builds with build_simple_tx, /tx/broadcast and /block/broadcast *)
(* take any payload).                                                      *)
(***************************************************************************)
PrivOf(address) == CASE address = "A" -> "skA" [] address = "B" -> "skB" [] OTHER -> "skM"
PubOf(address) == PubOfPriv(PrivOf(address))

\* the amounts a client asks to send
SendAmounts == {BLOCK_REWARD}

\* a transaction signed by the holder of pub with code of its own (no
\* ownership check), txid set
Resign(tx, pub) ==
  LET sig == Signature(pub, to_json(TxStripped(tx)))
      signed == [tx EXCEPT !.inputs =
                   [n \in 1..Len(tx.inputs) |->
                      [tx.inputs[n] EXCEPT !.signature = sig, !.pubkey = pub]]]
  IN [signed EXCEPT !.txid = compute_txid(signed)]

\* the total of the outputs a transaction's inputs reference
InValue(tx, u) ==
  SumAmounts([n \in 1..Len(tx.inputs) |->
                IF Has(u, UKey(tx.inputs[n].txid, tx.inputs[n].vout))
                THEN Get(u, UKey(tx.inputs[n].txid, tx.inputs[n].vout))
                ELSE TxOutput(0, "?")])

\* the reading of time.time() while the chain has Len(c) blocks
Now(c) == Len(c)

OtherAddress(a) == IF a = "A" THEN "B" ELSE "A"
OtherPub(pub) == IF pub = "pkA" THEN "pkB" ELSE "pkA"

\* what /tx/new builds for a client who pays the other address
HonestTxs(c, u) ==
  LET built == {build_simple_tx(u, PrivOf(o), PubOf(o), OtherAddress(o), amt, "", Now(c)) :
                  o \in Addresses, amt \in SendAmounts}
  IN {r.tx : r \in {b \in built : ~b.raised}}

\* a transfer that lists every input of t twice and pays out twice their value
DoubleInput(t, u) ==
  Resign([t EXCEPT !.inputs = t.inputs \o t.inputs,
                   !.outputs = <<TxOutput(2 * InValue(t, u), t.outputs[1].address)>>],
         t.inputs[1].pubkey)

\* payloads a peer makes out of a well-formed transfer t, none of which verifies
BrokenFrom(t, u) ==
  LET pub == t.inputs[1].pubkey
      to == t.outputs[1].address
  IN { [t EXCEPT !.txid = NonHex],
       [t EXCEPT !.inputs = [n \in 1..Len(t.inputs) |->
                               [t.inputs[n] EXCEPT !.signature = NoSignature]]],
       Resign(t, OtherPub(pub)),
       [t EXCEPT !.coinbase = TRUE],
       Resign([t EXCEPT !.outputs = <<TxOutput(InValue(t, u) + 1, to)>>], pub),
       Resign([t EXCEPT !.inputs = [n \in 1..Len(t.inputs) |->
                               [t.inputs[n] EXCEPT !.vout = @ + 2]]], pub) }

\* the transaction without inputs and without outputs
EmptyTx == Resign(Transaction(<<>>, <<>>, 1, FALSE), "pkA")

\* the transfers a peer sends that may verify
SoundOffers(c, u) ==
  HonestTxs(c, u) \cup {DoubleInput(t, u) : t \in HonestTxs(c, u)} \cup {EmptyTx}

\* the transactions handed to add_transaction
TxOffers(c, u) ==
  SoundOffers(c, u)
  \cup {[t EXCEPT !.txid = None] : t \in HonestTxs(c, u)}
  \cup UNION {BrokenFrom(t, u) : t \in HonestTxs(c, u)}

\* the coinbase a peer makes like make_coinbase does
PeerCoinbase == make_coinbase("A", BLOCK_REWARD, 1)

\* a coinbase with an input and two outputs, one negative, that add up to the reward
OddCoinbase ==
  Resign(Transaction(<<TxInput(NonHex, 0)>>,
                     <<TxOutput(BLOCK_REWARD + 1, "A"), TxOutput(-1, "B")>>, 1, TRUE), "pkA")

\* the coinbase transactions a peer puts first in a block
CoinbaseOffers ==
  { PeerCoinbase, OddCoinbase,
    make_coinbase("A", BLOCK_REWARD + 1, 1),
    [PeerCoinbase EXCEPT !.txid = NonHex] }

\* the transaction lists of blocks that look well made
PlainTxs(c, u) ==
  {<<PeerCoinbase>>} \cup {<<PeerCoinbase, t>> : t \in SoundOffers(c, u)}

\* the transaction lists a peer puts in a block
TxsOffers(c, u) ==
  PlainTxs(c, u)
  \cup {<<cb>> : cb \in CoinbaseOffers}
  \cup {<<PeerCoinbase, t>> : t \in TxOffers(c, u)}
  \cup {<<PeerCoinbase, t1, t2>> : t1 \in HonestTxs(c, u), t2 \in HonestTxs(c, u)}
  \cup { <<>>, <<EmptyTx>>, <<PeerCoinbase, EmptyTx, EmptyTx>>,
         <<PeerCoinbase, make_coinbase("B", BLOCK_REWARD, 1)>>,
         <<[PeerCoinbase EXCEPT !.txid = NonHex], EmptyTx>>,
         <<EmptyTx, [PeerCoinbase EXCEPT !.txid = NonHex]>>,
         <<make_coinbase("A", BLOCK_REWARD + 1, 1), [EmptyTx EXCEPT !.txid = NonHex]>> }

\* what a peer may get wrong in a block's header
HeaderFaults == {"prev", "pow", "hash", "merkle"}

\* a block a peer has made of txs for the chain c, with one fault or none
PeerBlock(c, index, txs, now, fault) ==
  LET b == Block(index, IF fault = "prev" THEN GENESIS_MESSAGE ELSE latest_block(c).hash,
                 now, txs)
      mined == mine_block(IF compute_merkle_raises(b) THEN [b EXCEPT !.txs = <<>>] ELSE b,
                          DIFFICULTY)
      sent == [mined EXCEPT !.txs = txs]
  IN CASE fault = "pow" ->
            LET w == [sent EXCEPT !.nonce = @ + 1] IN [w EXCEPT !.hash = compute_hash(w)]
       [] fault = "hash" -> [sent EXCEPT !.hash = latest_block(c).hash]
       [] fault = "merkle" ->
            LET x == [sent EXCEPT !.merkle_root = sha256d_hex(HexConcat(@, @)), !.nonce = 0]
                good(n) == StartsWithZeros(compute_hash([x EXCEPT !.nonce = n]), DIFFICULTY)
                y == [x EXCEPT !.nonce = CHOOSE n \in 0..(NonceSpace - 1) : good(n)]
            IN [y EXCEPT !.hash = compute_hash(y)]
       [] OTHER -> sent

\* blocks made for another place than the end of the chain
WrongIndexOffers(c, u) ==
  {PeerBlock(c, index, txs, 1, "none") :
     index \in {Len(c) + 1, Len(c) - 1}, txs \in PlainTxs(c, u)}

\* blocks with a fault in the header
FaultOffers(c, u) ==
  {PeerBlock(c, Len(c), txs, 1, fault) :
     txs \in {<<PeerCoinbase>>, <<PeerCoinbase, EmptyTx>>}, fault \in HeaderFaults}

\* the blocks handed to try_add_block
BlockOffers(c, u) ==
  {PeerBlock(c, Len(c), txs, 1, "none") : txs \in TxsOffers(c, u)}
  \cup WrongIndexOffers(c, u) \cup FaultOffers(c, u)

(***************************************************************************)
(* The ledger as a state machine.                                          *)
(***************************************************************************)
Result(op, r) ==
  /\ chain' = r.chain
  /\ utxos' = r.utxos
  /\ mempool' = r.mempool
  /\ disk' = r.disk
  /\ ret' = [op |-> op, val |-> r.ret]

\* Blockchain(data_dir) on an empty directory: _init_genesis
Init ==
  /\ chain = <<GenesisBlock(1)>>
  /\ utxos = <<>>
  /\ mempool = <<>>
  /\ disk = Persist(chain, utxos, mempool)
  /\ ret = [op |-> "init", val |-> "None"]
  /\ scn = [pc |-> "none"]

AddTransaction ==
  /\ Len(chain) < MaxChain
  /\ \E tx \in TxOffers(chain, utxos) :
       LET r == add_transaction(chain, utxos, mempool, disk, tx)
       IN Len(r.mempool) <= MaxMempool /\ Result("add_transaction", r)
  /\ UNCHANGED scn

Mine ==
  /\ Len(chain) < MaxChain
  /\ \E miner_address \in Miners :
       Result("mine", mine(chain, utxos, mempool, disk, miner_address, Now(chain)))
  /\ UNCHANGED scn

TryAddBlock ==
  /\ Len(chain) < MaxChain
  /\ \E block \in BlockOffers(chain, utxos) :
       Result("try_add_block", try_add_block(chain, utxos, mempool, disk, block))
  /\ UNCHANGED scn

Next == AddTransaction \/ Mine \/ TryAddBlock

Spec == Init /\ [][Next]_vars

(***************************************************************************)
(* The ledger with the call of mine in two steps, the call and its return: *)
(* the calls are made one at a time, and a call of mine that has been made *)
(* returns (its loops are bounded by the mempool and the nonce search).    *)
(***************************************************************************)
\* mine(miner_address) is called
LMineCall ==
  /\ scn.pc = "none"
  /\ Len(chain) < MaxChain
  /\ \E miner_address \in Miners :
       scn' = [pc |-> "mine",
               result |-> mine(chain, utxos, mempool, disk, miner_address, Now(chain))]
  /\ UNCHANGED <<chain, utxos, mempool, disk, ret>>

\* the call of mine returns or raises
LMineReturn ==
  /\ scn.pc = "mine"
  /\ Result("mine", scn.result)
  /\ scn' = [pc |-> "none"]

\* add_transaction and try_add_block, called when no call of mine is running
LAddTransaction == scn.pc = "none" /\ AddTransaction
LTryAddBlock == scn.pc = "none" /\ TryAddBlock

LiveNext == LAddTransaction \/ LTryAddBlock \/ LMineCall \/ LMineReturn

LiveSpec == Init /\ [][LiveNext]_vars /\ WF_vars(LMineReturn)

(***************************************************************************)
(* The ledger of a process up to its restart: the process persists the     *)
(* ledger and ends, and a new Blockchain is constructed on the directory.  *)
(***************************************************************************)
Restart ==
  /\ ret.op # "load"
  /\ disk' = Persist(chain, utxos, mempool)
  /\ chain' = Load(disk').chain
  /\ utxos' = Load(disk').utxos
  /\ mempool' = Load(disk').mempool
  /\ ret' = [op |-> "load", val |-> "None"]
  /\ UNCHANGED scn

RestartNext == (ret.op # "load" /\ Next) \/ Restart

RestartSpec == Init /\ [][RestartNext]_vars

(***************************************************************************)
(* The node's handlers run in threads of their own (Flask serves each      *)
(* request in a thread) and the ledger has no lock: while one call of mine *)
(* is between its steps, other calls run. scn holds the locals of the mine *)
(* in progress.                                                            *)
(***************************************************************************)
\* mine, from its start to the end of the proof-of-work search
CMineSelect ==
  /\ scn.pc = "none"
  /\ Len(chain) < MaxChain
  /\ \E miner_address \in Miners :
       LET coinbase == make_coinbase(miner_address, BLOCK_REWARD, Now(chain))
           s == SelectTxs(mempool, 1, utxos, <<coinbase>>)
           mined == mine_block(MineCandidate(chain, s.selected, Now(chain)), DIFFICULTY)
       IN IF s.raised
          THEN ret' = [op |-> "mine", val |-> "raise"] /\ UNCHANGED scn
          ELSE /\ scn' = [pc |-> "mined", selected |-> s.selected, mined |-> mined]
               /\ UNCHANGED ret
  /\ UNCHANGED <<chain, utxos, mempool, disk>>

\* mine: self.validate_block(mined, self.latest_block())
CMineValidate ==
  /\ scn.pc = "mined"
  /\ LET v == validate_block(scn.mined, latest_block(chain), utxos)
     IN /\ utxos' = v.live
        /\ IF v.result = "True"
           THEN scn' = [scn EXCEPT !.pc = "valid"] /\ UNCHANGED ret
           ELSE /\ scn' = [pc |-> "none"]
                /\ ret' = [op |-> "mine",
                           val |-> IF v.result = "raise" THEN "raise" ELSE "None"]
  /\ UNCHANGED <<chain, mempool, disk>>

\* mine: the commit of the block that validate_block accepted
CMineCommit ==
  /\ scn.pc = "valid"
  /\ Result("mine", Commit(chain, utxos, mempool, scn.mined, scn.selected, "block"))
  /\ scn' = [pc |-> "none"]

ConcurrentNext == Next \/ CMineSelect \/ CMineValidate \/ CMineCommit

ConcurrentSpec == Init /\ [][ConcurrentNext]_vars

(***************************************************************************)
(* verify called on a transaction and a UTXO map of the caller's choice.   *)
(***************************************************************************)
\* the outputs the maps hold: 3 to A and 2 to B
VKey1 == UKey(make_coinbase("A", 3, 1).txid, 0)
VKey2 == UKey(make_coinbase("B", 2, 1).txid, 0)
VMaps ==
  { <<>>,
    <<[key |-> VKey1, out |-> TxOutput(3, "A")]>>,
    <<[key |-> VKey1, out |-> TxOutput(3, "A")], [key |-> VKey2, out |-> TxOutput(2, "B")]>> }

\* the lists of references a transaction's inputs make
VRefs == { <<>>, <<VKey1>>, <<VKey1, VKey2>>, <<VKey1, VKey1>>, <<UKey(VKey1[1], 1)>> }

\* a transaction with the inputs refs, one output of amount to B, signed as
\* sigmode says with the key pub, its txid as idmode says
VTx(refs, pub, sigmode, amount, idmode, coinbase, loaded) ==
  LET t0 == Transaction([n \in 1..Len(refs) |-> TxInput(refs[n][1], refs[n][2])],
                        <<TxOutput(amount, "B")>>, 1, coinbase)
      sig == CASE sigmode = "good" -> Signature(pub, to_json(TxStripped(t0)))
               [] sigmode = "forged" -> Signature(pub, to_json(<<>>))
               [] OTHER -> NoSignature
      t1 == [t0 EXCEPT !.inputs = [n \in 1..Len(refs) |->
                                     [t0.inputs[n] EXCEPT !.signature = sig, !.pubkey = pub]]]
      t2 == [t1 EXCEPT !.txid = CASE idmode = "ok" -> compute_txid(t1)
                                  [] idmode = "stale" -> compute_txid(Transaction(<<>>, <<>>, 0, FALSE))
                                  [] OTHER -> None]
  IN IF loaded
     THEN [t2 EXCEPT !.inputs = [n \in 1..Len(refs) |-> LoadedInput(t2.inputs[n])]]
     ELSE t2

VTxs ==
  { VTx(refs, pub, sigmode, amount, idmode, coinbase, loaded) :
      refs \in VRefs, pub \in {"pkA", "pkB", NoPubkey},
      sigmode \in {"good", "forged", "none"}, amount \in {-1, 0, 3, 5, 6},
      idmode \in {"ok", "stale", "none"}, coinbase \in BOOLEAN, loaded \in BOOLEAN }

VInit ==
  /\ chain = <<GenesisBlock(1)>>
  /\ utxos = <<>>
  /\ mempool = <<>>
  /\ disk = Persist(chain, utxos, mempool)
  /\ ret = [op |-> "init", val |-> "None"]
  /\ \E tx \in VTxs : \E utxo_map \in VMaps :
       scn = [pc |-> "call", tx |-> tx, utxo_map |-> utxo_map]

\* tx.verify(utxo_map)
VVerify ==
  /\ scn.pc = "call"
  /\ ret' = [op |-> "verify", val |-> IF Verify(scn.tx, scn.utxo_map) THEN "True" ELSE "False"]
  /\ scn' = [scn EXCEPT !.pc = "done"]
  /\ UNCHANGED <<chain, utxos, mempool, disk>>

VNext == VVerify

VerifySpec == VInit /\ [][VNext]_vars

(***************************************************************************)
(* apply_tx called on a ledger whose UTXO map is one of VMaps, with a      *)
(* transaction of the caller's choice.                                     *)
(***************************************************************************)
\* the transactions given to apply_tx: those given to verify, the transfers
\* of 2 with change that build_simple_tx makes, and a coinbase of two outputs
ATxs ==
  VTxs
  \cup {build_simple_tx(u, PrivOf(o), PubOf(o), OtherAddress(o), 2, "", 1).tx :
          u \in VMaps \ {<<>>}, o \in Addresses}
  \cup {OddCoinbase}

AInit ==
  /\ chain = <<GenesisBlock(1)>>
  /\ utxos \in VMaps
  /\ mempool = <<>>
  /\ disk = Persist(chain, utxos, mempool)
  /\ ret = [op |-> "init", val |-> "None"]
  /\ \E tx \in ATxs : scn = [pc |-> "call", tx |-> tx]

\* self.apply_tx(tx)
AApply ==
  /\ scn.pc = "call"
  /\ LET r == apply_tx(utxos, scn.tx)
     IN /\ utxos' = r.utxos
        /\ ret' = [op |-> "apply_tx", val |-> IF r.ok THEN "True" ELSE "False"]
  /\ scn' = [scn EXCEPT !.pc = "done"]
  /\ UNCHANGED <<chain, mempool, disk>>

ANext == AApply

ApplySpec == AInit /\ [][ANext]_vars

(***************************************************************************)
(* build_simple_tx called on a UTXO map with a private key, a public key   *)
(* and an amount.                                                          *)
(***************************************************************************)
\* the amounts of the outputs of a UTXO map: TxOutput.amount is any int, and
\* apply_tx puts the outputs of an accepted transaction in the map as they are
UtxoAmounts == {-1, 1, 2}

\* the amounts asked for
AskAmounts == -1..3

\* the UTXO maps of at most MaxUtxos outputs of one transaction
UtxoMaps ==
  LET txid == make_coinbase("A", BLOCK_REWARD, 1).txid
  IN UNION {{[i \in 1..n |-> [key |-> UKey(txid, i - 1), out |-> o[i]]] :
               o \in [1..n -> {TxOutput(amt, a) : amt \in UtxoAmounts, a \in Addresses}]} :
            n \in 0..MaxUtxos}

BInit ==
  /\ chain = <<GenesisBlock(1)>>
  /\ utxos = <<>>
  /\ mempool = <<>>
  /\ disk = Persist(chain, utxos, mempool)
  /\ ret = [op |-> "init", val |-> None]
  /\ \E u \in UtxoMaps, priv \in {"skA", "skB"}, pub \in {"pkA", "pkB"},
        amount \in AskAmounts, change_addr \in {"", "B"} :
        scn = [pc |-> "call", utxo_map |-> u, from_priv_hex |-> priv, from_pub_hex |-> pub,
               to_addr |-> "B", amount |-> amount, change_addr |-> change_addr]

\* build_simple_tx(utxo_map, from_priv_hex, from_pub_hex, to_addr, amount, change_addr)
BBuild ==
  /\ scn.pc = "call"
  /\ ret' = [op |-> "build_simple_tx",
             val |-> build_simple_tx(scn.utxo_map, scn.from_priv_hex, scn.from_pub_hex,
                                     scn.to_addr, scn.amount, scn.change_addr, 1)]
  /\ scn' = [scn EXCEPT !.pc = "done"]
  /\ UNCHANGED <<chain, utxos, mempool, disk>>

BNext == BBuild

BuildSpec == BInit /\ [][BNext]_vars

(***************************************************************************)
(* merkle_root_hex called on a list of txids (digests).                    *)
(***************************************************************************)
\* the txids: digests of four transactions
MerkleTxids == {make_coinbase(a, amt, 1).txid : a \in Addresses, amt \in {1, 2}}

\* the lists of at most MaxTxids txids
MerkleLists == UNION {[1..n -> MerkleTxids] : n \in 0..MaxTxids}

MInit ==
  /\ chain = <<GenesisBlock(1)>>
  /\ utxos = <<>>
  /\ mempool = <<>>
  /\ disk = Persist(chain, utxos, mempool)
  /\ ret = [op |-> "init", val |-> None]
  /\ \E txids \in MerkleLists : scn = [pc |-> "call", txids |-> txids]

\* merkle_root_hex(txids)
MMerkle ==
  /\ scn.pc = "call"
  /\ ret' = [op |-> "merkle_root_hex", val |-> merkle_root_hex(scn.txids)]
  /\ scn' = [scn EXCEPT !.pc = "done"]
  /\ UNCHANGED <<chain, utxos, mempool, disk>>

MNext == MMerkle

MerkleSpec == MInit /\ [][MNext]_vars

(***************************************************************************)
(* The end-to-end scenario: a client of a fresh ledger mines to a, sends   *)
(* amount from a to b with build_simple_tx and add_transaction, and mines  *)
(* to m.                                                                   *)
(***************************************************************************)
Holders == {"A", "B", "M"}

\* what time.time() may read at a call
ClockReadings == {1, 2}

ScInit ==
  /\ chain = <<GenesisBlock(1)>>
  /\ utxos = <<>>
  /\ mempool = <<>>
  /\ disk = Persist(chain, utxos, mempool)
  /\ ret = [op |-> "init", val |-> "None"]
  /\ \E a \in Holders : \E b \in Holders \ {a} : \E m \in Holders \ {a, b} :
       \E amount \in 1..(BLOCK_REWARD - 1) :
         scn = [pc |-> "fresh", a |-> a, b |-> b, m |-> m, amount |-> amount,
                built |-> FALSE, spent |-> <<>>]

ScMineA ==
  /\ scn.pc = "fresh"
  /\ \E now \in ClockReadings :
       Result("mine", mine(chain, utxos, mempool, disk, scn.a, now))
  /\ scn' = [scn EXCEPT !.pc = "mined"]

ScTransfer ==
  /\ scn.pc = "mined"
  /\ \E now \in ClockReadings :
       LET bt == build_simple_tx(utxos, PrivOf(scn.a), PubOf(scn.a), scn.b,
                                 scn.amount, "", now)
       IN IF bt.raised
          THEN /\ ret' = [op |-> "build_simple_tx", val |-> "raise"]
               /\ scn' = [scn EXCEPT !.pc = "sent"]
               /\ UNCHANGED <<chain, utxos, mempool, disk>>
          ELSE /\ Result("add_transaction",
                         add_transaction(chain, utxos, mempool, disk, bt.tx))
               /\ scn' = [scn EXCEPT !.pc = "sent", !.built = TRUE,
                                     !.spent = [n \in 1..Len(bt.tx.inputs) |->
                                                  UKey(bt.tx.inputs[n].txid,
                                                       bt.tx.inputs[n].vout)]]

ScMineM ==
  /\ scn.pc = "sent"
  /\ \E now \in ClockReadings :
       Result("mine", mine(chain, utxos, mempool, disk, scn.m, now))
  /\ scn' = [scn EXCEPT !.pc = "done"]

ScNext == ScMineA \/ ScTransfer \/ ScMineM

ScenarioSpec == ScInit /\ [][ScNext]_vars

(***************************************************************************)
(* Properties.                                                             *)
(***************************************************************************)
InputRefs(tx) == {UKey(tx.inputs[n].txid, tx.inputs[n].vout) : n \in 1..Len(tx.inputs)}
PendingRefs == UNION {InputRefs(mempool[j]) : j \in 1..Len(mempool)}
PendingTxids == {mempool[j].txid : j \in 1..Len(mempool)}

\* C1: no two pending transactions have the same txid or reference the same
\* input, and add_transaction returns True only for a transaction whose txid
\* was not pending and none of whose inputs a pending transaction referenced
C1_MempoolNoDoubleSpend ==
  /\ [](\A i, j \in 1..Len(mempool) :
          i # j => /\ mempool[i].txid # mempool[j].txid
                   /\ InputRefs(mempool[i]) \cap InputRefs(mempool[j]) = {})
  /\ [][(ret'.op = "add_transaction" /\ ret'.val = "True") =>
          /\ Len(mempool') = Len(mempool) + 1
          /\ mempool'[Len(mempool')].txid \notin PendingTxids
          /\ InputRefs(mempool'[Len(mempool')]) \cap PendingRefs = {}]_vars

\* a transfer that verifies was turned down with two transactions pending, and
\* a transfer on offer verifies, is not pending, and spends a pending input
C1_Witness ==
  /\ Len(mempool) = 2
  /\ ret = [op |-> "add_transaction", val |-> "False"]
  /\ \E tx \in TxOffers(chain, utxos) :
       /\ Verify(tx, utxos) /\ ~tx.coinbase
       /\ tx.txid \notin PendingTxids
       /\ InputRefs(tx) \cap PendingRefs # {}

\* C2: the chain starts with the genesis block and is linked by index and hash
C2_ChainLinked ==
  /\ Len(chain) >= 1
  /\ chain[1].index = 0
  /\ chain[1].prev_hash = GENESIS_MESSAGE
  /\ \A i \in 2..Len(chain) :
       chain[i].index = i - 1 /\ chain[i].prev_hash = chain[i - 1].hash

\* a mined block and a peer's block follow the genesis block
C2_Witness ==
  /\ Len(chain) = 3
  /\ ret = [op |-> "try_add_block", val |-> "True"]
  /\ \E a \in Miners : \E t \in 1..2 : chain[2].txs[1] = make_coinbase(a, BLOCK_REWARD, t)

\* C3: every coinbase transaction in the chain has no input and exactly one
\* output, of BLOCK_REWARD
C3_CoinbaseShape ==
  \A i \in 1..Len(chain) : \A k \in 1..Len(chain[i].txs) :
    LET tx == chain[i].txs[k]
    IN tx.coinbase =>
         /\ tx.inputs = <<>>
         /\ Len(tx.outputs) = 1
         /\ tx.outputs[1].amount = BLOCK_REWARD

\* C4: try_add_block returns False for every block whose index is not the
\* length of the chain, and changes nothing
C4_WrongIndexRejected ==
  \A block \in WrongIndexOffers(chain, utxos) :
    block.index # Len(chain) =>
      LET r == try_add_block(chain, utxos, mempool, disk, block)
      IN /\ r.ret = "False"
         /\ r.chain = chain /\ r.utxos = utxos /\ r.mempool = mempool /\ r.disk = disk

\* try_add_block has returned False, and a block on offer that validate_block
\* accepts has a wrong index
C4_Witness ==
  /\ ret = [op |-> "try_add_block", val |-> "False"]
  /\ Len(mempool) > 0
  /\ \E block \in BlockOffers(chain, utxos) :
       /\ block.index # Len(chain)
       /\ Len(block.txs) > 1
       /\ validate_block(block, latest_block(chain), utxos).result = "True"

\* one of the conditions of C5 holds of the block
C5_Condition(block, prev) ==
  \/ block.prev_hash # prev.hash
  \/ ~StartsWithZeros(block.hash, DIFFICULTY)
  \/ compute_hash(block) # block.hash
  \/ (~compute_merkle_raises(block) /\ compute_merkle(block) # block.merkle_root)
  \/ Len(block.txs) = 0
  \/ ~block.txs[1].coinbase
  \/ SumAmounts(block.txs[1].outputs) # BLOCK_REWARD

\* C5: validate_block returns False for every block with a wrong prev_hash,
\* hash prefix, hash, Merkle root, first transaction or reward
C5_ValidateBlockReturnsFalse ==
  \A block \in BlockOffers(chain, utxos) :
    C5_Condition(block, latest_block(chain))
      => validate_block(block, latest_block(chain), utxos).result = "False"

\* the transactions of the chain's blocks, as <<block, place>> pairs
ChainPlaces == UNION {{<<i, k>> : k \in 1..Len(chain[i].txs)} : i \in 1..Len(chain)}
TxAt(p) == chain[p[1]].txs[p[2]]

\* what validate_block's replay of txs makes of the UTXO map u
Replayed(txs, u) == ReplayBlock(txs, u, 1).copy

\* C6: a call of mine either returns the block, which it has appended, applied
\* and persisted, with its transactions gone from the mempool, or returns None
\* and has changed nothing; it does not raise
C6_MineCommitsOrFails ==
  [][ret'.op = "mine" =>
       \/ /\ ret'.val = "block"
          /\ Len(chain') = Len(chain) + 1
          /\ SubSeq(chain', 1, Len(chain)) = chain
          /\ \A k \in 1..Len(latest_block(chain').txs) :
               latest_block(chain').txs[k].txid \notin {mempool'[j].txid : j \in 1..Len(mempool')}
          /\ utxos' = Replayed(latest_block(chain').txs, utxos)
          /\ disk' = Persist(chain', utxos', mempool')
       \/ /\ ret'.val = "None"
          /\ UNCHANGED <<chain, utxos, mempool>>]_vars

\* C7: no txid of a transaction that is not coinbase is in two places of the
\* chain, and no transaction of the chain is pending
C7_ConsumedOnce ==
  /\ \A p, q \in ChainPlaces :
       (p # q /\ ~TxAt(p).coinbase /\ ~TxAt(q).coinbase) => TxAt(p).txid # TxAt(q).txid
  /\ \A p \in ChainPlaces : ~TxAt(p).coinbase => TxAt(p).txid \notin PendingTxids

\* C9: validate_block leaves the chain, the mempool and the live UTXO map as
\* they were: a call of mine or try_add_block whose block it turns down changes
\* none of them, and one whose block it accepts commits the block's
\* transactions to the UTXO map as it was before the call
C9_ValidateBlockKeepsLive ==
  [][ret'.op \in {"mine", "try_add_block"} =>
       IF chain' = chain
       THEN utxos' = utxos /\ mempool' = mempool
       ELSE utxos' = CommitTxs(latest_block(chain').txs, 1, utxos, mempool).utxos]_vars

\* try_add_block has turned a block down, and the replay of a block on offer
\* fails after it has changed its copy of the UTXO map
C9_Witness ==
  /\ ret = [op |-> "try_add_block", val |-> "False"]
  /\ \E block \in BlockOffers(chain, utxos) :
       LET v == validate_block(block, latest_block(chain), utxos)
       IN v.result = "False" /\ v.copy # utxos /\ Len(utxos) > 0

\* C10: every step leaves the chain it found as a prefix of the chain
C10_AppendOnly ==
  [][/\ Len(chain') >= Len(chain)
     /\ SubSeq(chain', 1, Len(chain)) = chain]_vars

\* the chain has grown twice, by a mined block and by a peer's
C10_Witness ==
  /\ Len(chain) = 3
  /\ ret.val \in {"block", "True"}
  /\ Len(chain[2].txs) + Len(chain[3].txs) > 2

\* C8: in the scenario, every balance of the fresh ledger is 0; after the mine
\* to a, a's balance is BLOCK_REWARD; the transfer is built and add_transaction
\* returns True for it; after the mine to m, a has BLOCK_REWARD - amount, b has
\* amount, and the coinbase output a spent is no key of the UTXO map
C8_EndToEndBalances ==
  /\ scn.pc = "fresh" => \A x \in Holders : balance(utxos, x) = 0
  /\ scn.pc = "mined" => balance(utxos, scn.a) = BLOCK_REWARD
  /\ scn.pc = "sent" =>
       /\ scn.built
       /\ ret = [op |-> "add_transaction", val |-> "True"]
  /\ scn.pc = "done" =>
       /\ balance(utxos, scn.a) = BLOCK_REWARD - scn.amount
       /\ balance(utxos, scn.b) = scn.amount
       /\ Len(scn.spent) = 1
       /\ \A n \in 1..Len(scn.spent) : ~Has(utxos, scn.spent[n])

\* the scenario has been played to its end: both blocks are mined, the second
\* holds the transfer, which spent the coinbase of the first
C8_Witness ==
  /\ scn.pc = "done"
  /\ ret = [op |-> "mine", val |-> "block"]
  /\ Len(chain) = 3
  /\ Len(chain[3].txs) = 2
  /\ scn.spent = <<UKey(chain[2].txs[1].txid, 0)>>
  /\ balance(utxos, scn.m) = BLOCK_REWARD

\* the transactions of the chain c and of the mempool m
AllTxs(c, m) ==
  UNION {{c[i].txs[k] : k \in 1..Len(c[i].txs)} : i \in 1..Len(c)}
    \cup {m[j] : j \in 1..Len(m)}

\* C11: a ledger persisted and loaded again has the chain, the UTXO map and
\* the mempool it had; its pending transactions that verified still verify,
\* its transactions recompute their txid, and it can be persisted again
C11_PersistRoundTrip ==
  [][ret'.op = "load" =>
       /\ chain' = chain /\ utxos' = utxos /\ mempool' = mempool
       /\ \A j \in 1..Len(mempool) :
            Verify(mempool[j], utxos) => Verify(mempool'[j], utxos')
       /\ \A tx \in AllTxs(chain', mempool') :
            ~ToDictRaises(tx) /\ compute_txid(tx) = tx.txid
       /\ ~PersistRaises(chain', mempool')]_vars

\* the amounts of the outputs the inputs of tx reference in utxo_map, those
\* that are there
ReferencedValue(tx, utxo_map) ==
  SumAmounts([n \in 1..Len(tx.inputs) |->
                IF Has(utxo_map, UKey(tx.inputs[n].txid, tx.inputs[n].vout))
                THEN Get(utxo_map, UKey(tx.inputs[n].txid, tx.inputs[n].vout))
                ELSE TxOutput(0, "")])

\* one of the conditions under which C12 has verify return False
C12_Fails(tx, utxo_map) ==
  \E n \in 1..Len(tx.inputs) :
    LET tin == tx.inputs[n]
        ref == UKey(tin.txid, tin.vout)
    IN \/ ~Has(utxo_map, ref)
       \/ tin.signature = NoSignature
       \/ tin.pubkey = NoPubkey
       \/ tin.signature # Signature(tin.pubkey, to_json(TxStripped(tx)))
       \/ pubkey_to_address(tin.pubkey) # Get(utxo_map, ref).address

\* C12: verify returns True or False; for a coinbase transaction True; for
\* another one False when a referenced output is absent, a signature or
\* public key is missing, a signature does not validate, a public key's
\* address is not the output's, or the outputs exceed the inputs; and True
\* only if the recomputed txid is the stored one
C12_VerifyContract ==
  scn.pc = "done" =>
    /\ ret.val \in {"True", "False"}
    /\ scn.tx.coinbase => ret.val = "True"
    /\ (~scn.tx.coinbase /\ C12_Fails(scn.tx, scn.utxo_map)) => ret.val = "False"
    /\ (~scn.tx.coinbase /\ ~C12_Fails(scn.tx, scn.utxo_map)
          /\ SumAmounts(scn.tx.outputs) > ReferencedValue(scn.tx, scn.utxo_map))
         => ret.val = "False"
    /\ (~scn.tx.coinbase /\ ret.val = "True") => compute_txid(scn.tx) = scn.tx.txid

\* verify has returned True for a transfer with two signed inputs, and False
\* is what it returns for the same transfer with a forged signature
C12_Witness ==
  /\ scn.pc = "done"
  /\ ret = [op |-> "verify", val |-> "True"]
  /\ ~scn.tx.coinbase
  /\ Len(scn.tx.inputs) = 2
  /\ SumAmounts(scn.tx.outputs) = 5
  /\ \E bad \in VTxs :
       /\ bad.outputs = scn.tx.outputs /\ ~bad.coinbase /\ Len(bad.inputs) = 1
       /\ bad.inputs[1].signature = Signature("pkA", to_json(<<>>))
       /\ ~Verify(bad, scn.utxo_map)

\* C13: add_transaction returns True only for a transaction that is not
\* coinbase and verifies against the UTXO map; when it returns False, chain,
\* UTXO map, mempool and documents are as before; when it returns True, the
\* mempool is the one before with the transaction appended, and chain and
\* UTXO map are as before; no pending transaction is coinbase
C13_AddTransactionFrame ==
  /\ [](\A j \in 1..Len(mempool) : ~mempool[j].coinbase)
  /\ [][ret'.op = "add_transaction" =>
          /\ ret'.val \in {"True", "False"}
          /\ ret'.val = "False" => UNCHANGED <<chain, utxos, mempool, disk>>
          /\ ret'.val = "True" =>
               /\ UNCHANGED <<chain, utxos>>
               /\ Len(mempool') = Len(mempool) + 1
               /\ mempool' = Append(mempool, mempool'[Len(mempool')])
               /\ ~mempool'[Len(mempool')].coinbase
               /\ Verify(mempool'[Len(mempool')], utxos)]_vars

\* add_transaction has returned False with a transaction pending, and both a
\* coinbase transaction and a transfer that does not verify are on offer
C13_Witness ==
  /\ ret = [op |-> "add_transaction", val |-> "False"]
  /\ Len(mempool) > 0
  /\ \E tx \in TxOffers(chain, utxos) : tx.coinbase
  /\ \E tx \in TxOffers(chain, utxos) : ~tx.coinbase /\ ~Verify(tx, utxos)

\* C14: while a call of mine is in progress no other call changes the chain,
\* the UTXO map or the mempool, and in every interleaving the chain is linked
\* by index and hash and no two pending transactions share a txid or an input
C14_MineSerialized ==
  /\ [][(scn.pc # "none" /\ scn' = scn) => UNCHANGED <<chain, utxos, mempool>>]_vars
  /\ [](\A i \in 2..Len(chain) :
          chain[i].index = i - 1 /\ chain[i].prev_hash = chain[i - 1].hash)
  /\ [](\A i, j \in 1..Len(mempool) :
          i # j => /\ mempool[i].txid # mempool[j].txid
                   /\ InputRefs(mempool[i]) \cap InputRefs(mempool[j]) = {})

\* the level above level: adjacent pairs, the last element doubled when the
\* level is odd, each pair replaced by the double hash of left then right
C15_Above(level) ==
  LET padded == IF Len(level) % 2 = 1 THEN Append(level, level[Len(level)]) ELSE level
  IN [i \in 1..(Len(padded) \div 2) |->
        sha256d_hex(HexConcat(padded[2 * i - 1], padded[2 * i]))]

RECURSIVE C15_Reference(_)
\* the reference pairwise reduction of a list of txids
C15_Reference(txids) ==
  IF Len(txids) = 0 THEN sha256d_hex(EmptyBytes)
  ELSE IF Len(txids) = 1 THEN txids[1]
  ELSE C15_Reference(C15_Above(txids))

\* the lists that are txids in another order
C15_Reordered(txids) ==
  {[i \in 1..Len(txids) |-> txids[p[i]]] : p \in Permutations(1..Len(txids))} \ {txids}

\* C15: merkle_root_hex of a list of txids is the reference pairwise
\* reduction of the list, and differs from the root of every other ordering
\* of the list when its txids are distinct
C15_MerkleReference ==
  scn.pc = "done" =>
    /\ ret.val = C15_Reference(scn.txids)
    /\ (\A i, j \in 1..Len(scn.txids) : i # j => scn.txids[i] # scn.txids[j])
         => \A other \in C15_Reordered(scn.txids) : merkle_root_hex(other) # ret.val

\* the root of three distinct txids has been computed: a level of odd length
C15_Witness ==
  /\ scn.pc = "done"
  /\ ret.op = "merkle_root_hex"
  /\ Len(scn.txids) = 3
  /\ Cardinality({scn.txids[i] : i \in 1..3}) = 3
  /\ ret.val = sha256d_hex(HexConcat(sha256d_hex(HexConcat(scn.txids[1], scn.txids[2])),
                                     sha256d_hex(HexConcat(scn.txids[3], scn.txids[3]))))

\* the outputs of utxo_map that address owns, in the order of the map
C16_Owned(utxo_map, address) == SelectSeq(utxo_map, LAMBDA e : e.out.address = address)

RECURSIVE C16_Total(_, _)
\* the total amount of the first k entries
C16_Total(entries, k) == IF k = 0 THEN 0 ELSE C16_Total(entries, k - 1) + entries[k].out.amount

\* C16: build_simple_tx called with the keys of one owner raises the
\* insufficient-funds error exactly when the owner's outputs total less than
\* amount; otherwise it spends the owner's outputs in the order of the map up
\* to the first at which the total reaches amount, pays amount to the
\* recipient and the rest, when there is one, to change_addr or else to the
\* owner, and the transaction passes verify against the map
C16_BuildSimpleTx ==
  (scn.pc = "done" /\ scn.from_pub_hex = PubOfPriv(scn.from_priv_hex)) =>
    LET r == ret.val
        owner == pubkey_to_address(scn.from_pub_hex)
        owned == C16_Owned(scn.utxo_map, owner)
        total == C16_Total(owned, Len(owned))
        k == Len(r.tx.inputs)
        picked == C16_Total(owned, k)
    IN /\ (r.error = "Insufficient funds") <=> (total < scn.amount)
       /\ ~(total < scn.amount) =>
            /\ ~r.raised
            /\ k <= Len(owned)
            /\ \A n \in 1..k : UKey(r.tx.inputs[n].txid, r.tx.inputs[n].vout) = owned[n].key
            /\ picked >= scn.amount
            /\ \A j \in 1..(k - 1) : C16_Total(owned, j) < scn.amount
            /\ (k = 0) => (Len(owned) = 0)
            /\ r.tx.outputs[1] = TxOutput(scn.amount, scn.to_addr)
            /\ IF picked > scn.amount
               THEN /\ Len(r.tx.outputs) = 2
                    /\ r.tx.outputs[2] =
                         TxOutput(picked - scn.amount,
                                  IF scn.change_addr = "" THEN owner ELSE scn.change_addr)
               ELSE Len(r.tx.outputs) = 1
            /\ SumAmounts(r.tx.outputs) = picked
            /\ Verify(r.tx, scn.utxo_map)

\* C17: when mine is called again and again, no transaction stays in the
\* mempool forever. The mempool changes finitely often in a chain of at most
\* MaxChain blocks (it shrinks only when a block is committed), so a
\* transaction stays forever exactly when the mempool is never empty again.
C17_EventuallyMined ==
  []<>(scn.pc = "mine") => []<>(mempool = <<>>)

\* the keys (txid, i) of the outputs of tx
C18_OutKeys(tx) == {UKey(tx.txid, i - 1) : i \in 1..Len(tx.outputs)}

\* after holds the outputs of tx under their keys, and every entry of before
\* or after under another key that is not in gone is the same in both
C18_Updated(before, after, tx, gone) ==
  /\ Keys(after) = (Keys(before) \ gone) \cup C18_OutKeys(tx)
  /\ \A i \in 1..Len(tx.outputs) : Get(after, UKey(tx.txid, i - 1)) = tx.outputs[i]
  /\ \A k \in Keys(after) \ C18_OutKeys(tx) : Get(after, k) = Get(before, k)

\* C18: apply_tx of a non-coinbase transaction that fails verify returns False
\* and leaves the UTXO set as it is; when apply_tx of a non-coinbase
\* transaction returns True the UTXO set has lost exactly the keys of the
\* inputs and holds every output under (txid, i), other entries unchanged; a
\* coinbase transaction adds every output and removes nothing; the chain and
\* the mempool are never changed
C18_ApplyTxFrame ==
  [][ret'.op = "apply_tx" =>
       /\ (~scn.tx.coinbase /\ ~Verify(scn.tx, utxos)) => (ret'.val = "False" /\ utxos' = utxos)
       /\ (~scn.tx.coinbase /\ ret'.val = "True") =>
             C18_Updated(utxos, utxos', scn.tx, InputRefs(scn.tx))
       /\ scn.tx.coinbase => (ret'.val = "True" /\ C18_Updated(utxos, utxos', scn.tx, {}))
       /\ chain' = chain /\ mempool' = mempool]_vars

\* apply_tx has returned True for a signed transfer with two outputs: the
\* output it spent is gone and both its outputs are in the UTXO set
C18_Witness ==
  /\ scn.pc = "done"
  /\ ret = [op |-> "apply_tx", val |-> "True"]
  /\ ~scn.tx.coinbase
  /\ Len(scn.tx.inputs) = 1
  /\ Len(scn.tx.outputs) = 2
  /\ ~Has(utxos, UKey(scn.tx.inputs[1].txid, scn.tx.inputs[1].vout))
  /\ Has(utxos, UKey(scn.tx.txid, 0)) /\ Has(utxos, UKey(scn.tx.txid, 1))

\* C19: every output in the UTXO set has a non-negative amount, and so the
\* balance of every address is non-negative
C19_AmountsNonNegative ==
  /\ \A i \in 1..Len(utxos) : utxos[i].out.amount >= 0
  /\ \A a \in Addresses \cup {"M", "?"} : balance(utxos, a) >= 0

\* the total of the amounts in the UTXO set u
C20_Total(u) == SumAmounts([i \in 1..Len(u) |-> u[i].out])

\* C20: the amounts in the UTXO set add up to at most BLOCK_REWARD for each
\* block after the genesis block, and a step that commits a block raises
\* the total by at most BLOCK_REWARD
C20_ValueConserved ==
  /\ [](C20_Total(utxos) <= BLOCK_REWARD * (Len(chain) - 1))
  /\ [][Len(chain') = Len(chain) + 1
          => C20_Total(utxos') <= C20_Total(utxos) + BLOCK_REWARD]_vars

RECURSIVE C21_Value(_, _)
\* the total of the amounts utxo_map holds under the keys refs, each key once
C21_Value(refs, utxo_map) ==
  IF refs = {} THEN 0
  ELSE LET k == CHOOSE r \in refs : TRUE
       IN (IF Has(utxo_map, k) THEN Get(utxo_map, k).amount ELSE 0)
            + C21_Value(refs \ {k}, utxo_map)

\* C21: when verify returns True for a non-coinbase transaction, its outputs
\* total at most the amounts of the distinct UTXOs its inputs reference, and
\* no (txid, vout) is listed twice among its inputs
C21_InputsCountedOnce ==
  (scn.pc = "done" /\ ret = [op |-> "verify", val |-> "True"] /\ ~scn.tx.coinbase) =>
    /\ SumAmounts(scn.tx.outputs) <= C21_Value(InputRefs(scn.tx), scn.utxo_map)
    /\ Cardinality(InputRefs(scn.tx)) = Len(scn.tx.inputs)

\* the copy of validate_block after the first k transactions of txs
C22_CopyAfter(txs, k, u) == ReplayBlock(SubSeq(txs, 1, k), u, 1).copy

\* C22: a step of mine or try_add_block that commits a block commits a block
\* that validate_block accepts on the state before; every apply_tx of the
\* commit returns True; the UTXO set after is the copy validate_block made by
\* replaying the block; and every transfer of the block spends outputs that
\* are unspent when its turn comes, each once, and that are spent after it
C22_CommitMatchesValidation ==
  [][Len(chain') = Len(chain) + 1 =>
       LET block == chain'[Len(chain')]
           replay == ReplayBlock(block.txs, utxos, 1)
       IN /\ validate_block(block, latest_block(chain), utxos).result = "True"
          /\ CommitTxs(block.txs, 1, utxos, mempool).applied
          /\ replay.ok
          /\ utxos' = replay.copy
          /\ \A j \in 1..Len(block.txs) :
                ~block.txs[j].coinbase =>
                  /\ InputRefs(block.txs[j])
                        \subseteq Keys(C22_CopyAfter(block.txs, j - 1, utxos))
                  /\ Cardinality(InputRefs(block.txs[j])) = Len(block.txs[j].inputs)
                  /\ InputRefs(block.txs[j])
                        \cap Keys(C22_CopyAfter(block.txs, j, utxos)) = {}]_vars

\* a block of a coinbase and a transfer has been committed: the output the
\* transfer spent is gone and its output is in the UTXO set
C22_Witness ==
  /\ ret \in {[op |-> "mine", val |-> "block"], [op |-> "try_add_block", val |-> "True"]}
  /\ Len(chain) > 1
  /\ LET txs == chain[Len(chain)].txs
     IN /\ Len(txs) = 2
        /\ ~txs[2].coinbase
        /\ Len(txs[2].inputs) = 1
        /\ ~Has(utxos, UKey(txs[2].inputs[1].txid, txs[2].inputs[1].vout))
        /\ Has(utxos, UKey(txs[2].txid, 0))

====
